---- MODULE Spec2Model ----
(***************************************************************************)
(* State-machine model of openwakeword/model.py: the Model class with its  *)
(* registry of wake word models, the per-label prediction buffer           *)
(* (deque(maxlen=30)), the cold-start zeroing and the patience/threshold   *)
(* debouncing of predict().                                                *)
(*                                                                         *)
(* Scores and thresholds are floats in the code.  The code only stores,    *)
(* compares (>=, == 0.0) and returns them, it never does arithmetic on     *)
(* them, so they are modelled as integers in tenths (7 stands for 0.7).    *)
(***************************************************************************)
EXTENDS Integers, Sequences, FiniteSets, TLC

\* ------------------------------------------------------------------------
\* Bounds of the model
\* ------------------------------------------------------------------------
\* predict calls per epoch (since construction or reset) under Spec
MaxCalls == 8
\* predict calls per epoch under SpecLong (must exceed the buffer capacity)
MaxLongCalls == 36
\* largest patience value a caller passes
MaxPatience == 3

\* ------------------------------------------------------------------------
\* Program constants
\* ------------------------------------------------------------------------
\* deque(maxlen=30)
maxlen == 30
\* "if len(self.prediction_buffer[mdl]) < 5"
ColdStartFrames == 5
\* step_size = 1280: the samples of a frame
step_size == 1280
\* np.zeros(16000*padding): the samples of a second
SamplesPerSecond == 16000

\* ------------------------------------------------------------------------
\* Inputs: model files, audio frames, predict arguments
\* ------------------------------------------------------------------------
\* An ONNX file as __init__ sees it: the name derived from the path, the
\* second dimension of the first output, and the first output's name, which
\* is either a plain string or a JSON object {"0": "x", "1": "y", ...}.
\* n_frames: the feature frames the model takes as input.
\* readable: ort.InferenceSession opens the file; decodes: json.loads accepts
\* an output name that holds "{".
FileA ==
  [name |-> "A", readable |-> TRUE, n_frames |-> 16, n_outputs |-> 1,
   output_name |-> [json |-> FALSE, decodes |-> TRUE, items |-> <<>>]]

FileM ==
  [name |-> "M", readable |-> TRUE, n_frames |-> 22, n_outputs |-> 3,
   output_name |-> [json |-> TRUE, decodes |-> TRUE,
                    items |-> << [int_label |-> 0, cls |-> "x"],
                                 [int_label |-> 1, cls |-> "y"],
                                 [int_label |-> 2, cls |-> "z"] >>]]

\* The lists of paths the orchestrator is constructed with: one model or
\* two, in either order.  The files are well formed: one output under a
\* plain name, or n outputs under a mapping of n indices.
WakewordModelPaths == { <<FileA>>, <<FileA, FileM>>, <<FileM, FileA>> }

\* Files whose label mappings overlap: N shares the label "x" with M, and D
\* has a class named like the single-output model A
FileN ==
  [name |-> "N", readable |-> TRUE, n_frames |-> 16, n_outputs |-> 2,
   output_name |-> [json |-> TRUE, decodes |-> TRUE,
                    items |-> << [int_label |-> 0, cls |-> "x"],
                                 [int_label |-> 1, cls |-> "w"] >>]]

FileD ==
  [name |-> "D", readable |-> TRUE, n_frames |-> 16, n_outputs |-> 2,
   output_name |-> [json |-> TRUE, decodes |-> TRUE,
                    items |-> << [int_label |-> 0, cls |-> "A"],
                                 [int_label |-> 1, cls |-> "v"] >>]]

\* Files whose output count and output name disagree: P has three outputs
\* under a plain name (what export_to_onnx writes with its default
\* class_mapping=""), Q has one output under a JSON mapping
FileP ==
  [name |-> "P", readable |-> TRUE, n_frames |-> 16, n_outputs |-> 3,
   output_name |-> [json |-> FALSE, decodes |-> TRUE, items |-> <<>>]]

FileQ ==
  [name |-> "Q", readable |-> TRUE, n_frames |-> 16, n_outputs |-> 1,
   output_name |-> [json |-> TRUE, decodes |-> TRUE,
                    items |-> << [int_label |-> 0, cls |-> "q"] >>]]

\* Files that do not load: a path that cannot be opened, and an output name
\* that holds "{" but is not JSON
FileMissing ==
  [name |-> "G", readable |-> FALSE, n_frames |-> 16, n_outputs |-> 1,
   output_name |-> [json |-> FALSE, decodes |-> TRUE, items |-> <<>>]]

FileBadJson ==
  [name |-> "J", readable |-> TRUE, n_frames |-> 16, n_outputs |-> 2,
   output_name |-> [json |-> TRUE, decodes |-> FALSE, items |-> <<>>]]

\* The lists of paths of the registry specification: the well-formed ones,
\* lists with a shared label, with a disagreeing file, and with a file that
\* does not load
RegistryPaths ==
  WakewordModelPaths \cup
  { <<FileM, FileN>>, <<FileN, FileM>>, <<FileA, FileD>>, <<FileD, FileA>>,
    <<FileP>>, <<FileQ>>, <<FileA, FileQ>>, <<FileP, FileA>>,
    <<FileMissing>>, <<FileA, FileMissing>>, <<FileBadJson, FileA>>,
    <<FileM, FileBadJson>> }

\* The scoring backend is external: the output row of a model is a fixed
\* function of the model and the audio frame.  OutputTable[mdl][x] is the row
\* of model mdl for frame x (tenths; the rows of the 3-class model sum to 1.0)
OutputTable ==
  [A |-> << <<4>>, <<5>>, <<7>> >>,
   M |-> << <<7, 2, 1>>, <<2, 7, 1>>, <<1, 3, 6>> >>,
   N |-> << <<3, 7>>, <<8, 2>>, <<6, 4>> >>,
   D |-> << <<6, 4>>, <<3, 7>>, <<8, 2>> >>,
   P |-> << <<2, 3, 5>>, <<5, 2, 3>>, <<3, 5, 2>> >>,
   Q |-> << <<8>>, <<3>>, <<6>> >>]

\* The audio frames x handed to predict
Frames == 1..Len(OutputTable.A)

\* Keys a caller uses in the patience and threshold dictionaries
KeyNames == {"A", "M"}

\* The empty dictionary {}
EmptyDict == [n \in {} |-> 0]

\* Threshold a caller configures for a model (tenths)
ThresholdFor == [A |-> 5, M |-> 6]

PatienceDicts ==
  {EmptyDict} \cup
  { [n \in S |-> k] : S \in (SUBSET KeyNames) \ {{}}, k \in 0..MaxPatience }

ThresholdDicts == { [n \in S |-> ThresholdFor[n]] : S \in SUBSET KeyNames }

\* The (patience, threshold) pairs a caller passes.  A threshold dictionary
\* that lacks a key is combined with the patience value 1 only: a call that
\* fails on the missing threshold fails whatever the patience value is.
PredictArgs ==
  { a \in [patience : PatienceDicts, threshold : ThresholdDicts] :
      \/ DOMAIN a.threshold = KeyNames
      \/ \A n \in DOMAIN a.patience : a.patience[n] = 1 }

\* ------------------------------------------------------------------------
\* State
\* ------------------------------------------------------------------------
VARIABLES
  models,             \* self.models: the model names in load order
  model_inputs,       \* self.model_inputs: name -> number of input feature frames
  model_outputs,      \* self.model_outputs: name -> number of outputs
  class_mapping,      \* self.class_mapping: name -> own name or index->label dict
  prediction_buffer,  \* self.prediction_buffer: label -> deque(maxlen=30)
  log,                \* history: label -> every score appended in this epoch
  stored,             \* history: label -> the score stored last in each predict call
  calls,              \* history: predict calls in this epoch
  epoch,              \* history: "constructed" or "reset"
  call,               \* the arguments of the last predict call
  result,             \* the outcome of the last predict call
  construction,       \* history: the paths given to Model(...) and its outcome
  lookup,             \* the last get_parent_model_from_label call and its result
  timing_report,      \* the timing side of the last predict call
  clip_runs           \* history: the predict_clip invocations and their results

vars == <<models, model_inputs, model_outputs, class_mapping, prediction_buffer,
          log, stored, calls, epoch, call, result,
          construction, lookup, timing_report, clip_runs>>

\* ------------------------------------------------------------------------
\* Helpers
\* ------------------------------------------------------------------------
Min(a, b) == IF a < b THEN a ELSE b

Max(a, b) == IF a > b THEN a ELSE b

\* d[key] of a dictionary, with a default for a missing key (defaultdict)
Get(d, key, default) == IF key \in DOMAIN d THEN d[key] ELSE default

\* d[key] = val
Put(d, key, val) == (key :> val) @@ d

\* defaultdict(partial(deque, maxlen=30)): a missing label is an empty deque
BufferOf(buffer, label) == Get(buffer, label, <<>>)

\* A deque that makes room at the wrong end: the newest entry is dropped
DequeAppendDropNewest(d, v) ==
  IF Len(d) < maxlen THEN Append(d, v) ELSE Append(SubSeq(d, 1, Len(d) - 1), v)

\* deque(maxlen=30).append(v): a full deque drops its oldest (leftmost) entry
DequeAppend(d, v) ==
  IF Len(d) < maxlen THEN Append(d, v) ELSE Append(Tail(d), v)

\* A window cut from the wrong end: arr[:k], the oldest k entries
NumpyTailFromStart(arr, k) == SubSeq(arr, 1, Min(Len(arr), Max(k, 0)))

\* numpy arr[-k:]
NumpyTail(arr, k) ==
  IF k = 0 THEN arr
  ELSE IF k > 0 THEN SubSeq(arr, Max(1, Len(arr) - k + 1), Len(arr))
  ELSE SubSeq(arr, Min(Len(arr), -k) + 1, Len(arr))

\* (scores >= t).sum()
RECURSIVE CountGE(_, _)
CountGE(scores, t) ==
  IF scores = <<>> THEN 0
  ELSE (IF Head(scores) >= t THEN 1 ELSE 0) + CountGE(Tail(scores), t)

\* ------------------------------------------------------------------------
\* __init__: the registry built from the list of paths
\* ------------------------------------------------------------------------
\* self.class_mapping[mdl_name]: json.loads(output_name) when the output name
\* holds "{", the model's own name otherwise
LoadClassMapping(file) ==
  IF file.output_name.json
  THEN [isdict |-> TRUE, items |-> file.output_name.items, name |-> ""]
  ELSE [isdict |-> FALSE, items |-> <<>>, name |-> file.name]

\* The attributes of lines 51-55 before the loop over the paths
NewRegistry ==
  [models |-> <<>>, model_inputs |-> EmptyDict, model_outputs |-> EmptyDict,
   class_mapping |-> EmptyDict,
   error |-> ""]

\* Lines 58-61: the session is stored under the model's name (a name loaded
\* before keeps its place in the dictionary) with its output count
RegisterSession(file, reg) ==
  [reg EXCEPT !.models = IF file.name \in DOMAIN reg.model_outputs
                         THEN @ ELSE Append(@, file.name),
              !.model_inputs = Put(@, file.name, file.n_frames),
              !.model_outputs = Put(@, file.name, file.n_outputs)]

\* A loader that leaves out a file it cannot load and goes on
LoadFileSkipping(file, reg) ==
  IF ~file.readable \/ (file.output_name.json /\ ~file.output_name.decodes)
  THEN reg
  ELSE [RegisterSession(file, reg) EXCEPT
          !.class_mapping = Put(@, file.name, LoadClassMapping(file))]

\* Lines 57-67, one path: ort.InferenceSession raises on a path it cannot
\* open, json.loads raises on an output name that is not JSON
LoadFile(file, reg) ==
  IF ~file.readable THEN [reg EXCEPT !.error = "NotFound"]
  ELSE IF file.output_name.json /\ ~file.output_name.decodes
       THEN [RegisterSession(file, reg) EXCEPT !.error = "ParseError"]
       ELSE [RegisterSession(file, reg) EXCEPT
               !.class_mapping = Put(@, file.name, LoadClassMapping(file))]

\* Lines 56-67: for mdl_path in wakeword_model_paths; an exception ends it
RECURSIVE LoadLoop(_, _, _)
LoadLoop(i, paths, reg) ==
  IF i > Len(paths) \/ reg.error # "" THEN reg
  ELSE LoadLoop(i + 1, paths, LoadFile(paths[i], reg))

\* Model(paths) evaluates to an object only when __init__ returns: nothing
\* catches the exception of lines 58 and 64, so the caller holds no object
ObjectOf(reg) == IF reg.error = "" THEN reg ELSE NewRegistry

\* ------------------------------------------------------------------------
\* get_parent_model_from_label
\* ------------------------------------------------------------------------
\* label in self.class_mapping[mdl].values()
InValues(label, mapping) ==
  \E i \in 1..Len(mapping.items) : mapping.items[i].cls = label

\* A scan that keeps the first match in load order
RECURSIVE ParentScanFirst(_, _, _)
ParentScanFirst(i, label, parent_model) ==
  IF i > Len(models) \/ parent_model # "" THEN parent_model
  ELSE LET mdl == models[i]
           found ==
             IF class_mapping[mdl].isdict
             THEN IF InValues(label, class_mapping[mdl]) THEN mdl ELSE parent_model
             ELSE IF label = class_mapping[mdl].name
                  THEN class_mapping[mdl].name ELSE parent_model
       IN ParentScanFirst(i + 1, label, found)

\* The loop over self.class_mapping.keys() (load order); a later match
\* overwrites an earlier one
RECURSIVE ParentScan(_, _, _)
ParentScan(i, label, parent_model) ==
  IF i > Len(models) THEN parent_model
  ELSE LET mdl == models[i]
           found ==
             IF class_mapping[mdl].isdict
             THEN IF InValues(label, class_mapping[mdl]) THEN mdl ELSE parent_model
             ELSE IF label = class_mapping[mdl].name
                  THEN class_mapping[mdl].name ELSE parent_model
       IN ParentScan(i + 1, label, found)

\* A lookup that never looks at the model loaded first
get_parent_model_after_first(label) == ParentScan(2, label, "")

get_parent_model_from_label(label) == ParentScan(1, label, "")

\* ------------------------------------------------------------------------
\* predict: the loop over the models
\* ------------------------------------------------------------------------
\* self.models[mdl].run(None, {...})[0][0]: the output row for frame x,
\* indexed from 0
ModelRun(mdl, x) ==
  [i \in 0..(model_outputs[mdl] - 1) |-> OutputTable[mdl][x][i + 1]]

\* predictions[key] = val (a new key goes last in the dictionary's order)
SetPrediction(st, key, val) ==
  [st EXCEPT !.predictions = Put(@, key, val),
             !.order = IF key \in DOMAIN st.predictions THEN @ ELSE Append(@, key)]

\* for int_label, cls in self.class_mapping[mdl].items():
\*     predictions[cls] = prediction[0][0][int(int_label)]
RECURSIVE AssignClasses(_, _, _)
AssignClasses(items, prediction, st) ==
  IF items = <<>> THEN st
  ELSE IF Head(items).int_label \notin DOMAIN prediction
       THEN [st EXCEPT !.error = "IndexError"]
       ELSE AssignClasses(Tail(items), prediction,
                          SetPrediction(st, Head(items).cls,
                                        prediction[Head(items).int_label]))

\* A conversion that reads the first output for every class
ConvertOutputFirstColumn(mdl, prediction, st) ==
  IF model_outputs[mdl] = 1
  THEN SetPrediction(st, mdl, prediction[0])
  ELSE IF class_mapping[mdl].isdict
       THEN AssignClasses(class_mapping[mdl].items,
                          [i \in DOMAIN prediction |-> prediction[0]], st)
       ELSE [st EXCEPT !.error = "AttributeError"]

\* Lines 138-142: the raw output becomes one score (one output) or one score
\* per mapped class (several outputs); a model of several outputs whose
\* mapping is a plain string has no .items()
ConvertOutput(mdl, prediction, st) ==
  IF model_outputs[mdl] = 1
  THEN SetPrediction(st, mdl, prediction[0])
  ELSE IF class_mapping[mdl].isdict
       THEN AssignClasses(class_mapping[mdl].items, prediction, st)
       ELSE [st EXCEPT !.error = "AttributeError"]

\* A cold start that is one frame short
ColdStartScoreShort(d, score) == IF Len(d) < ColdStartFrames - 1 THEN 0 ELSE score

\* if len(self.prediction_buffer[mdl]) < 5: predictions[mdl] = 0.0
ColdStartScore(d, score) == IF Len(d) < ColdStartFrames THEN 0 ELSE score

\* Lines 145-148: the loop over predictions.keys(), which holds the labels of
\* every model run so far in this call
RECURSIVE UpdateBuffer(_, _)
UpdateBuffer(keys, st) ==
  IF keys = <<>> THEN st
  ELSE LET mdl == Head(keys)
           d == BufferOf(st.buffer, mdl)
           v == ColdStartScore(d, st.predictions[mdl])
       IN UpdateBuffer(Tail(keys),
            [st EXCEPT !.predictions = Put(@, mdl, v),
                       !.buffer = Put(@, mdl, DequeAppend(d, v)),
                       !.appended = Put(@, mdl, Append(Get(@, mdl, <<>>), v))])

\* The value of the name mdl at line 153: the loop of line 145 rebinds the
\* name of the loop of line 127, so it holds the last key of predictions
TimingKey(i, st) ==
  IF st.order = <<>> THEN models[i] ELSE st.order[Len(st.order)]

\* A timing that writes the elapsed time into predictions
RecordTimingInPredictions(i, st) ==
  IF st.timing
  THEN [st EXCEPT !.predictions = Put(@, TimingKey(i, st), 1)]
  ELSE st

\* Lines 151-153: timing_dict["models"][mdl] = model_end - model_start
RecordTiming(i, st) ==
  IF st.timing
  THEN [st EXCEPT !.timing_dict = Put(@, TimingKey(i, st), "elapsed")]
  ELSE st

\* Lines 127-153: for mdl in self.models.keys()
RECURSIVE ModelLoop(_, _, _)
ModelLoop(i, x, st) ==
  IF i > Len(models) THEN st
  ELSE LET converted == ConvertOutput(models[i], ModelRun(models[i], x), st)
       IN IF converted.error # "" THEN converted
          ELSE ModelLoop(i + 1, x,
                         RecordTiming(i, UpdateBuffer(converted.order, converted)))

\* ------------------------------------------------------------------------
\* predict: patience and threshold
\* ------------------------------------------------------------------------
\* A debounce test with a strict comparison against the threshold
BelowPatienceStrict(scores, t, k) == CountGE(scores, t + 1) < k

\* A debounce test that zeroes when exactly k entries pass
BelowPatienceOrEqual(scores, t, k) == CountGE(scores, t) <= k

\* A debounce test that asks the whole window to pass, however short it is
BelowPatienceOfWindow(scores, t, k) == CountGE(scores, t) < Len(scores)

\* (scores >= threshold[parent_model]).sum() < patience[parent_model]
BelowPatience(scores, t, k) == CountGE(scores, t) < k

\* A debounce that applies some model's patience to the labels of the
\* models patience does not name
RECURSIVE DebounceLoopAll(_, _, _, _, _)
DebounceLoopAll(keys, predictions, buffer, patience, threshold) ==
  IF keys = <<>> THEN [status |-> "ok", scores |-> predictions]
  ELSE LET mdl == Head(keys)
           parent == get_parent_model_from_label(mdl)
           parent_model == IF parent \in DOMAIN patience THEN parent
                           ELSE CHOOSE k \in DOMAIN patience : TRUE
       IN IF parent_model \notin DOMAIN threshold
          THEN [status |-> "KeyError", scores |-> EmptyDict]
          ELSE LET scores == NumpyTail(BufferOf(buffer, mdl), patience[parent_model])
                   zeroed == BelowPatience(scores, threshold[parent_model],
                                           patience[parent_model])
               IN DebounceLoopAll(Tail(keys),
                                  IF zeroed THEN Put(predictions, mdl, 0) ELSE predictions,
                                  buffer, patience, threshold)

\* Lines 160-165: for mdl in predictions.keys()
RECURSIVE DebounceLoop(_, _, _, _, _)
DebounceLoop(keys, predictions, buffer, patience, threshold) ==
  IF keys = <<>> THEN [status |-> "ok", scores |-> predictions]
  ELSE LET mdl == Head(keys)
           parent_model == get_parent_model_from_label(mdl)
       IN IF parent_model \notin DOMAIN patience
          THEN DebounceLoop(Tail(keys), predictions, buffer, patience, threshold)
          ELSE IF parent_model \notin DOMAIN threshold
               THEN [status |-> "KeyError", scores |-> EmptyDict]
               ELSE LET scores == NumpyTail(BufferOf(buffer, mdl), patience[parent_model])
                        zeroed == BelowPatience(scores, threshold[parent_model],
                                                patience[parent_model])
                    IN DebounceLoop(Tail(keys),
                                    IF zeroed THEN Put(predictions, mdl, 0) ELSE predictions,
                                    buffer, patience, threshold)

\* A predict that never checks for an empty threshold dictionary
MissingThresholdsUnchecked(patience, threshold) == FALSE

\* if patience != {}: if threshold == {}: raise ValueError(...)
MissingThresholds(patience, threshold) ==
  DOMAIN patience # {} /\ DOMAIN threshold = {}

\* A predict that asks for thresholds before it looks at patience
FinishValidateFirst(st, patience, threshold) ==
  IF st.error # "" THEN [status |-> st.error, scores |-> EmptyDict]
  ELSE IF DOMAIN threshold = {} THEN [status |-> "ValueError", scores |-> EmptyDict]
  ELSE IF DOMAIN patience = {} THEN [status |-> "ok", scores |-> st.predictions]
  ELSE DebounceLoop(st.order, st.predictions, st.buffer, patience, threshold)

\* Lines 155-171
Finish(st, patience, threshold) ==
  IF st.error # "" THEN [status |-> st.error, scores |-> EmptyDict]
  ELSE IF DOMAIN patience = {} THEN [status |-> "ok", scores |-> st.predictions]
  ELSE IF MissingThresholds(patience, threshold)
       THEN [status |-> "ValueError", scores |-> EmptyDict]
       ELSE DebounceLoop(st.order, st.predictions, st.buffer, patience, threshold)

\* ------------------------------------------------------------------------
\* Actions
\* ------------------------------------------------------------------------
NoCall == [x |-> 1, patience |-> EmptyDict, threshold |-> EmptyDict]

NoResult == [status |-> "none", scores |-> EmptyDict]

\* defaultdict(partial(deque, maxlen=30)): no label has a deque yet
NewBuffer == EmptyDict

\* The state after Model(wakeword_model_paths)
NoLookup == [label |-> "", parent_model |-> "", done |-> FALSE]

NoTiming == [timing |-> FALSE, timing_dict |-> EmptyDict,
             twin_result |-> NoResult, twin_buffer |-> NewBuffer]

Construct(paths) ==
  \E reg \in {LoadLoop(1, paths, NewRegistry)} :
    /\ construction = [paths |-> paths, error |-> reg.error]
    /\ models = ObjectOf(reg).models
    /\ model_inputs = ObjectOf(reg).model_inputs
    /\ model_outputs = ObjectOf(reg).model_outputs
    /\ class_mapping = ObjectOf(reg).class_mapping
    /\ prediction_buffer = NewBuffer
    /\ log = EmptyDict
    /\ stored = EmptyDict
    /\ calls = 0
    /\ epoch = "constructed"
    /\ result = NoResult
    /\ lookup = NoLookup
    /\ timing_report = NoTiming
    /\ clip_runs = <<>>

Init ==
  /\ \E paths \in WakewordModelPaths : Construct(paths)
  /\ call = NoCall

\* The locals of predict before its loop over the models
LoopStart ==
  [predictions |-> EmptyDict, order |-> <<>>,
   buffer |-> prediction_buffer, appended |-> EmptyDict, error |-> "",
   timing |-> FALSE, timing_dict |-> EmptyDict]

\* The history of every append, after a call whose loop ended in st
LogAfter(lg, st) ==
  [l \in DOMAIN lg \cup DOMAIN st.appended |->
     Get(lg, l, <<>>) \o Get(st.appended, l, <<>>)]

\* The history of the last append of each call, after a call whose loop
\* ended in st
StoredAfter(sd, st) ==
  [l \in DOMAIN sd \cup DOMAIN st.appended |->
     IF l \in DOMAIN st.appended
     THEN Append(Get(sd, l, <<>>), st.appended[l][Len(st.appended[l])])
     ELSE sd[l]]

\* What the loop over the models leaves behind: the deques, and the
\* histories of what was appended to them
Commit(st) ==
  /\ prediction_buffer' = st.buffer
  /\ log' = LogAfter(log, st)
  /\ stored' = StoredAfter(stored, st)
  /\ calls' = calls + 1

\* predict(x, patience, threshold): the loop over the models (lines 126-153)
\* with outcome st, then the patience and threshold part (lines 155-171)
DoPredict(x) ==
  \E st \in {ModelLoop(1, x, LoopStart)} :
    /\ Commit(st)
    /\ \E a \in PredictArgs :
         /\ call' = [x |-> x, patience |-> a.patience, threshold |-> a.threshold]
         /\ result' = Finish(st, a.patience, a.threshold)
    /\ UNCHANGED <<models, model_inputs, model_outputs, class_mapping, epoch,
                   construction, lookup, timing_report, clip_runs>>

Predict ==
  /\ calls < MaxCalls
  /\ \E x \in Frames : DoPredict(x)

\* A reset that keeps the deques
ResetBufferKept == prediction_buffer

\* self.prediction_buffer = defaultdict(partial(deque, maxlen=30))
ResetBuffer == NewBuffer

\* A reset that makes a new object of the old one: the registry is emptied
\* along with the buffers
ResetReloading ==
  /\ prediction_buffer' = ResetBuffer
  /\ log' = EmptyDict
  /\ stored' = EmptyDict
  /\ calls' = 0
  /\ epoch' = "reset"
  /\ result' = NoResult
  /\ models' = <<>>
  /\ model_inputs' = EmptyDict
  /\ model_outputs' = EmptyDict
  /\ class_mapping' = EmptyDict
  /\ UNCHANGED <<call, construction, lookup, timing_report, clip_runs>>

\* reset()
Reset ==
  /\ prediction_buffer' = ResetBuffer
  /\ log' = EmptyDict
  /\ stored' = EmptyDict
  /\ calls' = 0
  /\ epoch' = "reset"
  /\ result' = NoResult
  /\ UNCHANGED <<models, model_inputs, model_outputs, class_mapping, call,
                 construction, lookup, timing_report, clip_runs>>

Next == Predict \/ Reset

Spec == Init /\ [][Next]_vars

\* A long stream: the frames follow each other cyclically, so that the
\* buffers fill up to and beyond their capacity
NextFrame(x) == (x % Len(OutputTable.A)) + 1

InitLong ==
  /\ \E paths \in WakewordModelPaths : Construct(paths)
  /\ \E x \in Frames : call = [NoCall EXCEPT !.x = x]

PredictLong ==
  /\ calls < MaxLongCalls
  /\ DoPredict(NextFrame(call.x))

NextLong == PredictLong \/ Reset

SpecLong == InitLong /\ [][NextLong]_vars

\* A long stream with long patience: the patience values around the
\* cold-start length and the buffer capacity, and thresholds that some and
\* that all raw scores reach
LongPatience ==
  {1, 2, maxlen - ColdStartFrames, maxlen - ColdStartFrames + 1, maxlen, maxlen + 1}

\* Thresholds every raw score of the model reaches (tenths)
LowThreshold == [A |-> 4, M |-> 1]

\* Thresholds of 0.0, which the zeros of the cold start reach as well
ZeroThreshold == [A |-> 0, M |-> 0]

PatientArgs ==
  { [patience |-> EmptyDict, threshold |-> EmptyDict] } \cup
  { [patience |-> [n \in {p} |-> k], threshold |-> t] :
      p \in KeyNames, k \in LongPatience,
      t \in {ThresholdFor, LowThreshold, ZeroThreshold} }

PredictPatient ==
  /\ calls < MaxLongCalls
  /\ \E st \in {ModelLoop(1, NextFrame(call.x), LoopStart)} :
       /\ Commit(st)
       /\ \E a \in PatientArgs :
            /\ call' = [x |-> NextFrame(call.x), patience |-> a.patience,
                        threshold |-> a.threshold]
            /\ result' = Finish(st, a.patience, a.threshold)
  /\ UNCHANGED <<models, model_inputs, model_outputs, class_mapping, epoch,
                 construction, lookup, timing_report, clip_runs>>

NextPatient == PredictPatient \/ Reset

SpecPatient == InitLong /\ [][NextPatient]_vars

\* ------------------------------------------------------------------------
\* The registry specification: every list of paths, parent lookups, and
\* predict calls with and without timing
\* ------------------------------------------------------------------------
\* predict calls per epoch under SpecRegistry
MaxProbeCalls == 5

\* Model(paths) returned an object
Usable == construction.error = ""

\* The labels of a loaded mapping: the values of the dictionary, or the
\* model's own name
MappingLabels(mdl) ==
  IF class_mapping[mdl].isdict
  THEN {class_mapping[mdl].items[i].cls : i \in 1..Len(class_mapping[mdl].items)}
  ELSE {class_mapping[mdl].name}

\* The labels of all loaded mappings
RegistryLabels == UNION {MappingLabels(models[i]) : i \in 1..Len(models)}

\* A label no mapping holds
UnknownLabel == "u"

\* get_parent_model_from_label(label)
GetParent ==
  /\ Usable
  /\ \E label \in RegistryLabels \cup {UnknownLabel} :
       lookup' = [label |-> label,
                  parent_model |-> get_parent_model_from_label(label),
                  done |-> TRUE]
  /\ UNCHANGED <<models, model_inputs, model_outputs, class_mapping, prediction_buffer,
                 log, stored, calls, epoch, call, result,
                 construction, timing_report, clip_runs>>

\* The (patience, threshold) pairs of the registry specification
ProbeArgs ==
  { [patience |-> EmptyDict, threshold |-> EmptyDict],
    [patience |-> [n \in {"A"} |-> 2], threshold |-> ThresholdFor],
    [patience |-> [n \in {"M"} |-> 2], threshold |-> ThresholdFor],
    [patience |-> [n \in {"A"} |-> 1], threshold |-> EmptyDict] }

\* Lines 113-123: the locals of predict(x, ..., timing) before the loop
LoopStartTimed(timing) ==
  [LoopStart EXCEPT !.timing = timing,
                    !.timing_dict = IF timing THEN ("preprocessor" :> "elapsed")
                                    ELSE EmptyDict]

\* predict(x, patience, threshold, timing).  The twin is the outcome of the
\* same call, from the same state, with the timing flag negated.
DoPredictTimed(x, timing) ==
  \E st \in {ModelLoop(1, x, LoopStartTimed(timing))},
     twin \in {ModelLoop(1, x, LoopStartTimed(~timing))} :
    /\ Commit(st)
    /\ \E a \in ProbeArgs :
         /\ call' = [x |-> x, patience |-> a.patience, threshold |-> a.threshold]
         /\ result' = Finish(st, a.patience, a.threshold)
         /\ timing_report' =
              [timing |-> timing, timing_dict |-> st.timing_dict,
               twin_result |-> Finish(twin, a.patience, a.threshold),
               twin_buffer |-> twin.buffer]
    /\ UNCHANGED <<models, model_inputs, model_outputs, class_mapping, epoch,
                   construction, lookup, clip_runs>>

PredictTimed ==
  /\ Usable
  /\ calls < MaxProbeCalls
  /\ \E x \in Frames, timing \in BOOLEAN : DoPredictTimed(x, timing)

ResetRegistry == Usable /\ Reset

InitRegistry ==
  /\ \E paths \in RegistryPaths : Construct(paths)
  /\ call = NoCall

NextRegistry == GetParent \/ PredictTimed \/ ResetRegistry

SpecRegistry == InitRegistry /\ [][NextRegistry]_vars

\* ------------------------------------------------------------------------
\* What the claims speak about
\* ------------------------------------------------------------------------
\* The labels predict produces for a model (lines 138-142)
LabelsOf(mdl) ==
  IF model_outputs[mdl] = 1 THEN {mdl}
  ELSE {class_mapping[mdl].items[i].cls : i \in 1..Len(class_mapping[mdl].items)}

\* The labels of all loaded models
LoadedLabels == UNION {LabelsOf(models[i]) : i \in 1..Len(models)}

\* The raw score the model of a label emits for frame x
RawScore(label, x) ==
  LET mdl == CHOOSE m \in {models[i] : i \in 1..Len(models)} : label \in LabelsOf(m)
  IN IF model_outputs[mdl] = 1 THEN ModelRun(mdl, x)[0]
     ELSE LET items == class_mapping[mdl].items
              i == CHOOSE j \in 1..Len(items) : items[j].cls = label
          IN ModelRun(mdl, x)[items[i].int_label]

\* The last operation was a predict call
Called == calls > 0

\* The last operation was a predict call that returned a score map
Returned == calls > 0 /\ result.status = "ok"

\* The first entries of a label's log, up to the cold-start length, are 0.0
ColdStartZeroed(label) ==
  \A i \in 1..Min(ColdStartFrames, Len(log[label])) : log[label][i] = 0

\* ------------------------------------------------------------------------
\* Claims
\* ------------------------------------------------------------------------
\* C1: for every label the first 5 scores appended to its buffer since
\* construction or since the last reset() are 0.0, whatever the raw model
\* output, the number of loaded models and the sequence of calls.
C1Theorem == \A label \in DOMAIN log : ColdStartZeroed(label)

\* C1 witness: with two models loaded, a label has been appended to more
\* than 5 times; its first five entries are 0.0 and the sixth is a raw score.
C1Witness ==
  /\ Len(models) = 2
  /\ \E label \in DOMAIN log :
       /\ Len(log[label]) > ColdStartFrames
       /\ ColdStartZeroed(label)
       /\ log[label][ColdStartFrames + 1] # 0

\* C2: after n predict calls since construction or reset() every label's
\* buffer holds min(n, 30) entries, one per frame (the claim as stated).
C2Claim ==
  \A label \in LoadedLabels :
    Len(BufferOf(prediction_buffer, label)) = Min(calls, maxlen)

\* C3: each of the first 5 predict calls after construction or reset()
\* returns 0.0 for every label and, with no patience given, the 6th and every
\* later call returns the frame's raw score (the claim as stated).
C3Claim ==
  Returned =>
    \A label \in LoadedLabels :
      /\ calls <= ColdStartFrames => result.scores[label] = 0
      /\ (calls > ColdStartFrames /\ DOMAIN call.patience = {}) =>
           result.scores[label] = RawScore(label, call.x)

\* The number of entries >= t among the trailing k entries of a buffer
TrailingPasses(buf, k, t) ==
  Cardinality({i \in 1..Len(buf) : i > Len(buf) - k /\ buf[i] >= t})

\* C4: with patience[p] = k for the parent model p of a label, the returned
\* score is 0.0 when fewer than k of the trailing k buffer entries (the score
\* just appended being the newest) are >= threshold[p], and the score just
\* appended otherwise; an entry equal to the threshold passes.
C4Theorem ==
  Returned =>
    \A label \in DOMAIN result.scores :
      LET p == get_parent_model_from_label(label)
          buf == prediction_buffer[label]
      IN p \in DOMAIN call.patience =>
           result.scores[label] =
             IF TrailingPasses(buf, call.patience[p], call.threshold[p])
                  < call.patience[p]
             THEN 0 ELSE buf[Len(buf)]

\* C4 witness: a single model, patience 3, the trailing 3 entries are one
\* above the threshold, one equal to it and the current one above it (as in
\* [0.6, 0.5, 0.7] with threshold 0.5), and the current score is returned.
C4Witness ==
  /\ Returned
  /\ Len(models) = 1
  /\ \E label \in DOMAIN result.scores :
       LET p == get_parent_model_from_label(label)
           buf == prediction_buffer[label]
       IN /\ p \in DOMAIN call.patience
          /\ call.patience[p] = 3
          /\ Len(buf) >= 3
          /\ buf[Len(buf) - 2] > call.threshold[p]
          /\ buf[Len(buf) - 1] = call.threshold[p]
          /\ buf[Len(buf)] > call.threshold[p]
          /\ result.scores[label] = buf[Len(buf)]

\* C5: with patience[p] = k (1 <= k <= 30), predict returns a non-zero score
\* for a label only if the label's stored score was at or above threshold[p]
\* in this predict call and in each of the k-1 calls before it (the claim as
\* stated).
C5Claim ==
  Returned =>
    \A label \in DOMAIN result.scores :
      LET p == get_parent_model_from_label(label)
          frames == stored[label]
      IN (/\ p \in DOMAIN call.patience
          /\ call.patience[p] \in 1..maxlen
          /\ result.scores[label] # 0) =>
           /\ Len(frames) >= call.patience[p]
           /\ \A i \in 1..Len(frames) :
                i > Len(frames) - call.patience[p] => frames[i] >= call.threshold[p]

\* C6: a predict call with a non-empty patience and an empty threshold
\* dictionary fails with ValueError in every buffer state, for every set of
\* loaded models and every patience key.
C6Theorem ==
  (Called /\ DOMAIN call.patience # {} /\ DOMAIN call.threshold = {}) =>
    result.status = "ValueError"

\* C6 witness: such a call failed with ValueError, its patience naming a
\* model that is not loaded, after the buffers had left the cold start.
C6Witness ==
  /\ Called
  /\ \E key \in DOMAIN call.patience : key \notin {models[i] : i \in 1..Len(models)}
  /\ DOMAIN call.threshold = {}
  /\ result.status = "ValueError"
  /\ calls > ColdStartFrames

\* C7: a predict call in which some key of patience is missing from
\* threshold fails with ValueError (the claim as stated).
C7Claim ==
  (Called /\ ~(DOMAIN call.patience \subseteq DOMAIN call.threshold)) =>
    result.status = "ValueError"

\* C8: a predict call that fails with ValueError leaves the prediction
\* buffer as it was before the call (the claim as stated).
C8Claim ==
  [][(calls' = calls + 1 /\ result'.status = "ValueError") =>
       prediction_buffer' = prediction_buffer]_vars

\* C9: no buffer ever holds more than 30 entries, and a buffer holds the
\* newest min(30, n) of the n scores appended to it, in the order of their
\* appending: an append to a full buffer evicts the oldest entry only.
C9Theorem ==
  \A label \in DOMAIN prediction_buffer :
    LET buf == prediction_buffer[label]
        n == Len(log[label])
    IN /\ Len(buf) <= 30
       /\ Len(buf) = Min(n, 30)
       /\ \A i \in 1..Len(buf) : buf[i] = log[label][n - Len(buf) + i]

\* C9 witness: the only label of a single model has been appended to more
\* than 30 times and its buffer holds 30 entries.
C9Witness ==
  /\ Len(models) = 1
  /\ \E label \in DOMAIN prediction_buffer :
       /\ Len(log[label]) > 30
       /\ Len(prediction_buffer[label]) = 30
       /\ prediction_buffer[label][1] # 0

\* C10: after reset() every label's buffer is empty, and the first 5 scores
\* appended for every label after the reset are 0.0 again.
C10Theorem ==
  epoch = "reset" =>
    /\ calls = 0 => \A label \in LoadedLabels :
                      BufferOf(prediction_buffer, label) = <<>>
    /\ \A label \in LoadedLabels :
         /\ Len(BufferOf(prediction_buffer, label)) <= Len(Get(log, label, <<>>))
         /\ label \in DOMAIN log => ColdStartZeroed(label)

\* C10 witness: a label that was reset went through a second cold start: its
\* first five entries since the reset are 0.0 and the sixth is a raw score.
C10Witness ==
  /\ epoch = "reset"
  /\ \E label \in DOMAIN log :
       /\ Len(log[label]) > ColdStartFrames
       /\ ColdStartZeroed(label)
       /\ log[label][ColdStartFrames + 1] # 0


\* ------------------------------------------------------------------------
\* predict_clip
\* ------------------------------------------------------------------------
\* predict_clip invocations per behaviour
MaxClipRuns == 2
\* whole frames in the longest clip
MaxClipFrames == 7
\* largest padding, in seconds
MaxPadding == 1

\* Samples left over after the whole frames of a clip
Remainders == {0, 640}

\* f.getnframes(): the number of samples of the clip
ClipLengths == {step_size * N + r : N \in 0..MaxClipFrames, r \in Remainders}

Paddings == 0..MaxPadding

\* **kwargs: the patience and threshold predict_clip hands to predict
ClipArgs ==
  { [patience |-> EmptyDict, threshold |-> EmptyDict],
    [patience |-> [n \in {"A"} |-> 2], threshold |-> ThresholdFor],
    [patience |-> [n \in {"A"} |-> 1], threshold |-> EmptyDict] }

\* Lines 190-197: the clip between two runs of 16000 * padding zeros, or
\* the clip alone when padding is 0
PadData(n, padding) ==
  IF padding # 0
  THEN [lead |-> SamplesPerSecond * padding, body |-> n,
        trail |-> SamplesPerSecond * padding]
  ELSE [lead |-> 0, body |-> n, trail |-> 0]

\* data.shape[0]
Shape(data) == data.lead + data.body + data.trail

\* data[i:j]: numpy cuts a slice at the end of the array
Slice(data, i, j) == [start |-> Min(i, Shape(data)), stop |-> Min(j, Shape(data))]

\* The content of a frame, as the row of OutputTable the models answer with
FrameContent(frame) == ((frame.start \div step_size) % Len(OutputTable.A)) + 1

\* A range that runs to the end of the data
RangeStopAtEnd(data) == Shape(data)

\* The stop of range(0, data.shape[0]-step_size, step_size)
RangeStop(data) == Shape(data) - step_size

\* The object's state as predict reads and writes it
ObjectState ==
  [buffer |-> prediction_buffer, log |-> log, stored |-> stored,
   calls |-> calls, call |-> call, result |-> result]

\* predict(frame, **kwargs) on the object state obj, whose loop over the
\* models ended in st
AfterPredict(obj, x, kwargs, st) ==
  [buffer |-> st.buffer, log |-> LogAfter(obj.log, st),
   stored |-> StoredAfter(obj.stored, st), calls |-> obj.calls + 1,
   call |-> [x |-> x, patience |-> kwargs.patience, threshold |-> kwargs.threshold],
   result |-> Finish(st, kwargs.patience, kwargs.threshold)]

PredictOn(obj, x, kwargs) ==
  CHOOSE after \in
    {AfterPredict(obj, x, kwargs, st) :
       st \in {ModelLoop(1, x, [LoopStart EXCEPT !.buffer = obj.buffer])}} : TRUE

\* Line 203: predictions.append(self.predict(data[i:i+step_size], **kwargs));
\* frames and returns record what predict was called with and returned
AfterFrame(run, frame, obj) ==
  IF obj.result.status = "ok"
  THEN [run EXCEPT !.obj = obj,
                   !.frames = Append(@, frame),
                   !.returns = Append(@, obj.result.scores),
                   !.predictions = Append(@, obj.result.scores)]
  ELSE [run EXCEPT !.obj = obj,
                   !.frames = Append(@, frame),
                   !.status = obj.result.status]

\* Lines 202-203: for i in range(0, data.shape[0]-step_size, step_size);
\* an exception of predict ends the loop
RECURSIVE ClipLoop(_, _)
ClipLoop(i, run) ==
  IF i >= RangeStop(run.data) \/ run.status # "ok" THEN run
  ELSE ClipLoop(i + step_size,
         CHOOSE after \in
           {AfterFrame(run, frame, PredictOn(run.obj, FrameContent(frame), run.kwargs)) :
              frame \in {Slice(run.data, i, i + step_size)}} : TRUE)

\* predict_clip(clip, padding, **kwargs) on a clip of n samples
predict_clip(n, padding, kwargs) ==
  ClipLoop(0, [n |-> n, padding |-> padding, kwargs |-> kwargs,
               data |-> PadData(n, padding), obj |-> ObjectState,
               frames |-> <<>>, returns |-> <<>>, predictions |-> <<>>,
               status |-> "ok"])

\* What is kept of an invocation
RunRecord(run) ==
  [n |-> run.n, padding |-> run.padding, kwargs |-> run.kwargs,
   data |-> run.data, frames |-> run.frames, returns |-> run.returns,
   predictions |-> run.predictions, status |-> run.status]

\* The clip and options of an invocation are those of the one before
SameClip(n, padding, kwargs) ==
  clip_runs # <<>>
    => /\ clip_runs[1].n = n
       /\ clip_runs[1].padding = padding
       /\ clip_runs[1].kwargs = kwargs

PredictClip ==
  /\ Len(clip_runs) < MaxClipRuns
  /\ \E n \in ClipLengths, padding \in Paddings, kwargs \in ClipArgs :
       /\ SameClip(n, padding, kwargs)
       /\ \E run \in {predict_clip(n, padding, kwargs)} :
            /\ clip_runs' = Append(clip_runs, RunRecord(run))
            /\ prediction_buffer' = run.obj.buffer
            /\ log' = run.obj.log
            /\ stored' = run.obj.stored
            /\ calls' = run.obj.calls
            /\ call' = run.obj.call
            /\ result' = run.obj.result
  /\ UNCHANGED <<models, model_inputs, model_outputs, class_mapping, epoch,
                 construction, lookup, timing_report>>

NextClip == PredictClip \/ Reset

SpecClip == Init /\ [][NextClip]_vars

\* ------------------------------------------------------------------------
\* Claims on predict_clip
\* ------------------------------------------------------------------------
\* The invocations made so far
Runs == {clip_runs[k] : k \in 1..Len(clip_runs)}

\* C11 as stated: with padding 0 a clip of 1280*N + r samples, 0 <= r < 1280,
\* gives exactly N results.
C11Claim ==
  \A run \in Runs :
    (run.padding = 0 /\ run.status = "ok")
      => Len(run.predictions) = run.n \div step_size

\* C12: predict is called on the clip between two runs of 16000 * padding
\* zeros; the k-th call gets the 1280 samples from 1280*(k-1) on, all of
\* them inside the data; the k-th element of the returned list is what the
\* k-th call returned.
C12Theorem ==
  \A run \in Runs :
    /\ run.data.lead = SamplesPerSecond * run.padding
    /\ run.data.body = run.n
    /\ run.data.trail = SamplesPerSecond * run.padding
    /\ \A k \in 1..Len(run.frames) :
         /\ run.frames[k].start = step_size * (k - 1)
         /\ run.frames[k].stop = step_size * k
         /\ run.frames[k].stop <= Shape(run.data)
    /\ run.status = "ok"
         => /\ Len(run.predictions) = Len(run.frames)
            /\ run.predictions = run.returns

\* A padded clip with a partial last frame, run with patience to the end
C12Witness ==
  \E run \in Runs :
    /\ run.padding = 1 /\ run.n % step_size # 0 /\ run.n > step_size
    /\ run.status = "ok"
    /\ DOMAIN run.kwargs.patience # {}
    /\ Len(run.predictions) > 25
    /\ \E l \in DOMAIN run.predictions[Len(run.predictions)] :
         run.predictions[Len(run.predictions)][l] > 0

\* C13 as stated: two invocations on the same clip with the same options
\* return the same list.
C13Claim ==
  \A k \in 1..(Len(clip_runs) - 1) :
    ( /\ clip_runs[k].n = clip_runs[k + 1].n
      /\ clip_runs[k].padding = clip_runs[k + 1].padding
      /\ clip_runs[k].kwargs = clip_runs[k + 1].kwargs
      /\ clip_runs[k].status = "ok" /\ clip_runs[k + 1].status = "ok" )
      => clip_runs[k].predictions = clip_runs[k + 1].predictions

\* ------------------------------------------------------------------------
\* Claims on the registry
\* ------------------------------------------------------------------------
\* The positions in load order of the models whose mapping holds the label
Owners(label) == {i \in 1..Len(models) : label \in MappingLabels(models[i])}

\* The least and the greatest position of a set of positions
FirstOf(S) == CHOOSE i \in S : \A j \in S : i <= j

LastOf(S) == CHOOSE i \in S : \A j \in S : j <= i

\* No label is in the mappings of two loaded models
PairwiseDistinct ==
  \A i, j \in 1..Len(models) :
    i # j => MappingLabels(models[i]) \cap MappingLabels(models[j]) = {}

\* C14: when the labels of the loaded models are pairwise distinct, the
\* lookup of a label of a loaded model returns the name of the model whose
\* mapping holds it: the owning model for a label of a dictionary mapping,
\* the model's own name for a plain mapping.
C14Theorem ==
  (Usable /\ lookup.done /\ PairwiseDistinct /\ Owners(lookup.label) # {})
    => \A i \in Owners(lookup.label) : lookup.parent_model = models[i]

\* The lookups of a class of the second model and of the binary first model,
\* made after predict calls
C14Witness ==
  /\ Usable /\ lookup.done /\ PairwiseDistinct /\ calls > 0
  /\ models = <<"A", "M">>
  /\ \/ lookup.label = "y" /\ lookup.parent_model = "M"
     \/ lookup.label = "A" /\ lookup.parent_model = "A"

\* C15 as stated: when a label is in the mappings of more than one loaded
\* model, the lookup returns the first of them in load order.
C15Claim ==
  (Usable /\ lookup.done /\ Cardinality(Owners(lookup.label)) > 1)
    => lookup.parent_model = models[FirstOf(Owners(lookup.label))]

\* C15 amended: when a label is in the mappings of more than one loaded
\* model, the lookup returns the last of them in load order.
C15Theorem ==
  (Usable /\ lookup.done /\ Cardinality(Owners(lookup.label)) > 1)
    => lookup.parent_model = models[LastOf(Owners(lookup.label))]

\* The lookup of the class both M and N hold, M loaded first
C15Witness ==
  /\ Usable /\ lookup.done
  /\ models = <<"M", "N">>
  /\ lookup.label = "x"
  /\ Owners(lookup.label) = {1, 2}
  /\ lookup.parent_model = "N"

\* C18: a predict call with timing and the same call without it, from the
\* same state, return the same (scores or exception) and leave the same
\* prediction buffers.
C18Theorem ==
  (Usable /\ Called)
    => /\ timing_report.twin_result = result
       /\ timing_report.twin_buffer = prediction_buffer

\* A timed call past the cold start that returned a non-zero score and
\* filled the timing dictionary
C18Witness ==
  /\ Usable /\ Called /\ timing_report.timing
  /\ result.status = "ok"
  /\ \E l \in DOMAIN result.scores : result.scores[l] > 0
  /\ DOMAIN timing_report.timing_dict # {}
  /\ DOMAIN call.patience # {}

\* The exceptions of the conversion of lines 138-142
ConversionErrors == {"AttributeError", "IndexError"}

\* C19 as stated: whatever the output count and the shape of the output
\* name, no predict call fails in the conversion, a returned map has the
\* labels of the loaded mappings as keys, and every returned label has a
\* parent model.
C19Claim ==
  (Usable /\ Called)
    => /\ result.status \notin ConversionErrors
       /\ result.status = "ok"
            => /\ DOMAIN result.scores = RegistryLabels
               /\ \A l \in DOMAIN result.scores :
                    get_parent_model_from_label(l) # ""

\* The names the list of paths gives, in order
RECURSIVE NamesOf(_)
NamesOf(paths) ==
  IF paths = <<>> THEN <<>> ELSE <<Head(paths).name>> \o NamesOf(Tail(paths))

\* C20: an object exists only when every path of the list was loaded, and
\* then its registry holds every model of the list; when a path fails there
\* is no object: no registry, no lookup, no predict call.
C20Theorem ==
  /\ Usable
       => /\ \A i \in 1..Len(construction.paths) :
               /\ construction.paths[i].readable
               /\ construction.paths[i].output_name.json
                    => construction.paths[i].output_name.decodes
          /\ models = NamesOf(construction.paths)
          /\ DOMAIN model_inputs = {models[i] : i \in 1..Len(models)}
          /\ DOMAIN model_outputs = {models[i] : i \in 1..Len(models)}
          /\ DOMAIN class_mapping = {models[i] : i \in 1..Len(models)}
  /\ ~Usable
       => /\ models = <<>>
          /\ DOMAIN model_outputs = {} /\ DOMAIN class_mapping = {}
          /\ calls = 0 /\ result = NoResult /\ ~lookup.done
          /\ prediction_buffer = NewBuffer

\* A list whose first path loads and whose second does not
C20Witness ==
  /\ ~Usable
  /\ Len(construction.paths) = 2
  /\ construction.paths[1].readable
  /\ construction.paths[1].output_name.json
       => construction.paths[1].output_name.decodes
  /\ models = <<>>


\* ------------------------------------------------------------------------
\* Claims on the returned map
\* ------------------------------------------------------------------------
\* C16 as stated: when the labels of the loaded models are pairwise
\* distinct, the keys of the map a predict call returns are the labels of
\* the mappings of all loaded models, from the first call on.
C16Claim ==
  (Usable /\ Returned /\ PairwiseDistinct)
    => DOMAIN result.scores = RegistryLabels

\* The score of a label as appended last in the call: the raw score after
\* the cold-start test, which is what the call returns when patience is
\* empty
PassedThrough(label) == stored[label][Len(stored[label])]

\* C17: in a returned predict call with non-empty patience, a label whose
\* parent model is not a key of patience has the score the call gives with
\* patience empty.
C17Theorem ==
  (Returned /\ DOMAIN call.patience # {})
    => \A label \in DOMAIN result.scores :
         get_parent_model_from_label(label) \notin DOMAIN call.patience
           => result.scores[label] = PassedThrough(label)

\* A call that zeroes the score of A, named by patience, and returns a
\* non-zero score for a label of M, which patience does not name
C17Witness ==
  /\ Returned
  /\ models = <<"A", "M">>
  /\ DOMAIN call.patience = {"A"}
  /\ PassedThrough("A") # 0 /\ result.scores["A"] = 0
  /\ \E label \in {"x", "y", "z"} :
       /\ result.scores[label] # 0
       /\ result.scores[label] = PassedThrough(label)


\* ------------------------------------------------------------------------
\* Claims on the debounce window
\* ------------------------------------------------------------------------
\* The last k calls of the epoch each stored a score >= t for the label
StreakOf(label, k, t) ==
  /\ Len(stored[label]) >= k
  /\ \A i \in 1..Len(stored[label]) :
       i > Len(stored[label]) - k => stored[label][i] >= t

\* The deque of the label held at least 5 entries before the last call
PastColdStart(label) == Len(log[label]) >= ColdStartFrames + Len(models)

\* C21: the newest buffer entry of a label past its cold start is the raw
\* score of the frame, also when the call returned 0.0 for the label; and
\* when the label's scores were >= threshold[p] > 0 in the last k =
\* patience[p] calls (1 <= k <= 30) the call returns the raw score.
C21Theorem ==
  Returned =>
    \A label \in DOMAIN result.scores :
      LET p == get_parent_model_from_label(label)
          buf == prediction_buffer[label]
      IN /\ PastColdStart(label) => buf[Len(buf)] = RawScore(label, call.x)
         /\ ( /\ p \in DOMAIN call.patience
              /\ call.patience[p] \in 1..maxlen
              /\ call.threshold[p] > 0
              /\ StreakOf(label, call.patience[p], call.threshold[p]) )
              => result.scores[label] = RawScore(label, call.x)

\* A single model with patience 30: the call that completes 30 passing
\* calls, and no more, returns the raw score, which is what its buffer got
C21Witness ==
  /\ Returned
  /\ models = <<"A">>
  /\ DOMAIN call.patience = {"A"}
  /\ call.patience["A"] = maxlen
  /\ PastColdStart("A")
  /\ StreakOf("A", maxlen, call.threshold["A"])
  /\ ~StreakOf("A", maxlen + 1, call.threshold["A"])
  /\ result.scores["A"] = RawScore("A", call.x)
  /\ prediction_buffer["A"][Len(prediction_buffer["A"])] = result.scores["A"]


\* C22: a predict call with empty patience returns, whatever the threshold
\* argument is, and the returned map holds for every label the score the
\* call appended to the label's buffer (the raw score, or 0.0 in the cold
\* start).
C22Theorem ==
  (Called /\ DOMAIN call.patience = {})
    => /\ result.status = "ok"
       /\ DOMAIN result.scores = LoadedLabels
       /\ \A label \in LoadedLabels :
            /\ result.scores[label] = PassedThrough(label)
            /\ PastColdStart(label) => result.scores[label] = RawScore(label, call.x)

\* A call with empty patience past the cold start, with a threshold that
\* names one of the two models only
C22Witness ==
  /\ Returned /\ DOMAIN call.patience = {}
  /\ models = <<"A", "M">>
  /\ DOMAIN call.threshold = {"A"}
  /\ \A label \in LoadedLabels :
       PastColdStart(label) /\ result.scores[label] # 0


\* ------------------------------------------------------------------------
\* Claims on reset
\* ------------------------------------------------------------------------
\* A step that is a reset()
ResetStep ==
  /\ epoch' = "reset" /\ calls' = 0 /\ result' = NoResult
  /\ prediction_buffer' = NewBuffer

\* The registry and every parent lookup are after the step what they were
RegistryKept ==
  /\ models' = models
  /\ model_inputs' = model_inputs
  /\ model_outputs' = model_outputs
  /\ class_mapping' = class_mapping
  /\ \A label \in RegistryLabels \cup LoadedLabels \cup {UnknownLabel} :
       get_parent_model_from_label(label)' = get_parent_model_from_label(label)

\* C23: reset() leaves the loaded models, their input frame counts, output
\* counts and label mappings and the parent of every label as they were, and
\* a predict call returns the labels of the loaded models before and after
\* a reset alike.
C23Theorem ==
  /\ [][ResetStep => RegistryKept]_vars
  /\ [](Returned => DOMAIN result.scores = LoadedLabels)

\* After a reset of an object with two models: a predict call returned the
\* four labels and a lookup gave the parent of a class
C23Witness ==
  /\ epoch = "reset" /\ Returned
  /\ models = <<"A", "M">>
  /\ model_inputs = [A |-> 16, M |-> 22]
  /\ DOMAIN result.scores = {"A", "x", "y", "z"}
  /\ lookup.done /\ lookup.label = "y" /\ lookup.parent_model = "M"


\* ------------------------------------------------------------------------
\* Claims on short buffers and long patience
\* ------------------------------------------------------------------------
\* C24: when a label's buffer holds fewer than k = patience[p] entries the
\* debounce window is the whole buffer and the label is returned as 0.0; a
\* patience above the capacity of 30 makes every call return 0.0 for every
\* label of the model, for every threshold and every sequence of scores.
C24Theorem ==
  Returned =>
    \A label \in DOMAIN result.scores :
      LET p == get_parent_model_from_label(label)
          buf == prediction_buffer[label]
      IN p \in DOMAIN call.patience =>
           /\ Len(buf) < call.patience[p]
                => /\ NumpyTail(buf, call.patience[p]) = buf
                   /\ result.scores[label] = 0
           /\ call.patience[p] > maxlen => result.scores[label] = 0

\* Patience 31 on a full buffer whose 30 entries all reach the threshold:
\* the call returns 0.0 for a non-zero raw score
C24Witness ==
  /\ Returned
  /\ models = <<"A">>
  /\ DOMAIN call.patience = {"A"}
  /\ call.patience["A"] = maxlen + 1
  /\ call.threshold["A"] > 0
  /\ Len(prediction_buffer["A"]) = maxlen
  /\ \A i \in 1..maxlen : prediction_buffer["A"][i] >= call.threshold["A"]
  /\ result.scores["A"] = 0


\* ------------------------------------------------------------------------
\* Claims on the timing report
\* ------------------------------------------------------------------------
\* C25 as stated: the timing dictionary of a returned predict call with
\* timing has the key "preprocessor" and one key per loaded model, the
\* model's name.
C25Claim ==
  (Usable /\ Returned /\ timing_report.timing)
    => DOMAIN timing_report.timing_dict =
         {"preprocessor"} \cup {models[i] : i \in 1..Len(models)}


\* ------------------------------------------------------------------------
\* Claims on the first calls of an epoch
\* ------------------------------------------------------------------------
\* C26 as stated: with patience[p] = k (1 <= k <= 25) and threshold[p] > 0,
\* every label of p is returned as 0.0 in each of the first 5 + k - 1 calls
\* of an epoch.
C26Claim ==
  Returned =>
    \A label \in DOMAIN result.scores :
      LET p == get_parent_model_from_label(label)
      IN ( /\ p \in DOMAIN call.patience
           /\ call.patience[p] \in 1..(maxlen - ColdStartFrames)
           /\ call.threshold[p] > 0
           /\ calls <= ColdStartFrames + call.patience[p] - 1 )
           => result.scores[label] = 0


\* The buffers grow or stay as long as they are in a step that is no reset,
\* and a buffer of 5 entries or more stays one
BuffersGrow ==
  \A label \in DOMAIN prediction_buffer :
    /\ Len(BufferOf(prediction_buffer', label)) >= Len(prediction_buffer[label])
    /\ Len(prediction_buffer[label]) >= ColdStartFrames
         => Len(BufferOf(prediction_buffer', label)) >= ColdStartFrames

\* The entries of the epoch the cold start turned to 0.0 (no raw score of
\* the models is 0.0)
ZeroedEntries(label) == {i \in 1..Len(log[label]) : log[label][i] = 0}

\* C27 as stated: between two resets no buffer gets shorter, a buffer that
\* has reached 5 entries keeps at least 5, and at most 5 entries per label
\* and epoch are zeroed by the cold start.
C27Claim ==
  /\ [][~ResetStep => BuffersGrow]_vars
  /\ [](\A label \in DOMAIN log :
          Cardinality(ZeroedEntries(label)) <= ColdStartFrames)


\* ------------------------------------------------------------------------
\* Claims on what a score is
\* ------------------------------------------------------------------------
\* C28: for pairwise distinct labels, the score a predict call returns for
\* a label is 0.0 or the raw score the label's model gave for the frame of
\* this call, and so is the newest entry of the label's buffer.
C28Theorem ==
  (Returned /\ PairwiseDistinct) =>
    \A label \in DOMAIN result.scores :
      LET buf == prediction_buffer[label]
      IN /\ result.scores[label] \in {0, RawScore(label, call.x)}
         /\ buf[Len(buf)] \in {0, RawScore(label, call.x)}

\* Two models past the cold start, the frame before another one than the
\* frame of this call: a class of M is returned with its raw score, and A is
\* returned as 0.0 while its buffer got the raw score
C28Witness ==
  /\ Returned /\ PairwiseDistinct
  /\ models = <<"A", "M">>
  /\ Len(stored["y"]) > ColdStartFrames + 1
  /\ stored["y"][Len(stored["y"]) - 1] # RawScore("y", call.x)
  /\ result.scores["y"] = RawScore("y", call.x)
  /\ result.scores["A"] = 0
  /\ prediction_buffer["A"][Len(prediction_buffer["A"])] = RawScore("A", call.x)


\* C29: with patience[p] = 0 and p a key of threshold, a predict call
\* returns for every label of p the score it returns with patience empty:
\* the score the call appended to the label's buffer.
C29Theorem ==
  Returned =>
    \A label \in DOMAIN result.scores :
      LET p == get_parent_model_from_label(label)
      IN ( /\ p \in DOMAIN call.patience
           /\ call.patience[p] = 0
           /\ p \in DOMAIN call.threshold )
           => result.scores[label] = PassedThrough(label)

\* Patience 0 for the single model A past the cold start: no entry of the
\* buffer reaches the threshold, and the raw score is returned
C29Witness ==
  /\ Returned
  /\ models = <<"A">>
  /\ DOMAIN call.patience = {"A"} /\ call.patience["A"] = 0
  /\ PastColdStart("A")
  /\ \A i \in 1..Len(prediction_buffer["A"]) :
       prediction_buffer["A"][i] < call.threshold["A"]
  /\ result.scores["A"] = RawScore("A", call.x)
  /\ result.scores["A"] # 0

====
